---- MODULE Spec2Model ----
(***************************************************************************)
(* Model of src/main.rs: the suffix classifier                             *)
(* get_target_path_from_hash_map and the recursive copier copy_files /     *)
(* copy_files_by_roots.                                                    *)
(*                                                                         *)
(* A string is a sequence of one-character strings, so that ends_with,     *)
(* concatenation and the split of a template on "/" are computed and not   *)
(* assumed.  A path is the sequence of its components (each a string).     *)
(* An Option is a sequence of length 0 (None) or 1 (Some).                 *)
(***************************************************************************)
EXTENDS Naturals, Sequences, FiniteSets, TLC

None == <<>>
Some(x) == <<x>>
Unwrap(o) == o[1]

Front(s) == SubSeq(s, 1, Len(s) - 1)
Last(s) == s[Len(s)]

\* An entry of the ExtExportMap: extension (key) and export target (value).
Rule(key, value) == [k |-> key, v |-> value]

(***************************************************************************)
(* Names used by the inputs.                                               *)
(***************************************************************************)
s_data == <<"d", "a", "t", "a">>
s_custom_project == <<"c", "u", "s", "t", "o", "m", "_", "p", "r", "o", "j", "e", "c", "t">>
s_entities == <<"e", "n", "t", "i", "t", "i", "e", "s">>
s_models == <<"m", "o", "d", "e", "l", "s">>
s_foo == <<"f", "o", "o">>
s_x == <<"x">>
s_x_lang == <<"x", ".", "l", "a", "n", "g">>
s_r1 == <<"r", "1">>
s_r2 == <<"r", "2">>
s_missing == <<"m", "i", "s", "s", "i", "n", "g">>
f_ubpe == <<"_", "b", "p", "e", ".", "j", "s", "o", "n">>
f_udotbpe == <<"_", ".", "b", "p", "e", ".", "j", "s", "o", "n">>
f_bpe == <<"b", "p", "e", ".", "j", "s", "o", "n">>
f_dotbpe == <<".", "b", "p", "e", ".", "j", "s", "o", "n">>
f_foo_geo == <<"f", "o", "o", ".", "g", "e", "o", ".", "j", "s", "o", "n">>
f_bar_rc == <<"b", "a", "r", ".", "r", "c", ".", "j", "s", "o", "n">>
f_readme == <<"r", "e", "a", "d", "m", "e", ".", "t", "x", "t">>
f_entitiesbpe == <<"e", "n", "t", "i", "t", "i", "e", "s", "b", "p", "e", ".", "j", "s", "o", "n">>
f_entities_bpe ==
  <<"e", "n", "t", "i", "t", "i", "e", "s", ".", "b", "p", "e", ".", "j", "s", "o", "n">>
f_udotlang == <<"_", ".", "l", "a", "n", "g">>
f_y_lang == <<"y", ".", "l", "a", "n", "g">>
k_json == <<"j", "s", "o", "n">>
k_rc == <<"r", "c", ".", "j", "s", "o", "n">>
k_geo == <<"g", "e", "o", ".", "j", "s", "o", "n">>
k_lang == <<"l", "a", "n", "g">>
k_dotlang == <<".", "l", "a", "n", "g">>
t_BP_entities == <<"B", "P", "/", "e", "n", "t", "i", "t", "i", "e", "s">>
t_RP_x == <<"R", "P", "/", "x">>
t_RP_rc ==
  <<"R", "P", "/", "r", "e", "n", "d", "e", "r", "_", "c", "o", "n", "t", "r", "o", "l", "l", "e", "r", "s">>
t_RP_texts == <<"R", "P", "/", "t", "e", "x", "t", "s">>
t_RP_models_entity ==
  <<"R", "P", "/", "m", "o", "d", "e", "l", "s", "/", "e", "n", "t", "i", "t", "y">>
t_RP == <<"R", "P">>
t_RP_texts_sloppy == <<"R", "P", "/", "/", "t", "e", "x", "t", "s", "/">>
s_BP == <<"B", "P">>
s_RP == <<"R", "P">>
s_render_controllers ==
  <<"r", "e", "n", "d", "e", "r", "_", "c", "o", "n", "t", "r", "o", "l", "l", "e", "r", "s">>
s_texts == <<"t", "e", "x", "t", "s">>
s_entity == <<"e", "n", "t", "i", "t", "y">>
\* The ".." component, which is no file name (Path::file_name).
DotDot == <<".", ".">>
\* A byte that is not valid UTF-8: OsStr::to_str returns None on it.
BadByte == "<non-utf8>"
s_bad == <<"b", BadByte>>
Sep == "/"

(***************************************************************************)
(* The fixed extension table of the configuration-less variant, as an      *)
(* ExtExportMap value in one iteration order.                              *)
(***************************************************************************)
FixedTable ==
  << Rule(<<"l", "a", "n", "g">>,
          <<"R", "P", "/", "t", "e", "x", "t", "s">>),
     Rule(<<"m", "c", "f", "u", "n", "c", "t", "i", "o", "n">>,
          <<"B", "P", "/", "f", "u", "n", "c", "t", "i", "o", "n", "s">>),
     Rule(<<"m", "c", "s", "t", "r", "u", "c", "t", "u", "r", "e">>,
          <<"B", "P", "/", "s", "t", "r", "u", "c", "t", "u", "r", "e", "s">>),
     Rule(<<"w", "a", "v">>,
          <<"R", "P", "/", "s", "o", "u", "n", "d", "s">>),
     Rule(<<"o", "g", "g">>,
          <<"R", "P", "/", "s", "o", "u", "n", "d", "s">>),
     Rule(<<"f", "s", "b">>,
          <<"R", "P", "/", "s", "o", "u", "n", "d", "s">>),
     Rule(<<"m", "p", "4">>,
          <<"R", "P", "/", "s", "o", "u", "n", "d", "s">>),
     Rule(<<"p", "n", "g">>,
          <<"R", "P", "/", "t", "e", "x", "t", "u", "r", "e", "s">>),
     Rule(<<"t", "g", "a">>,
          <<"R", "P", "/", "t", "e", "x", "t", "u", "r", "e", "s">>),
     Rule(<<"b", "p", "a", "c", ".", "j", "s", "o", "n">>,
          <<"B", "P", "/", "a", "n", "i", "m", "a", "t", "i", "o", "n", "_", "c", "o", "n", "t", "r", "o", "l", "l", "e", "r", "s">>),
     Rule(<<"r", "p", "a", "c", ".", "j", "s", "o", "n">>,
          <<"R", "P", "/", "a", "n", "i", "m", "a", "t", "i", "o", "n", "_", "c", "o", "n", "t", "r", "o", "l", "l", "e", "r", "s">>),
     Rule(<<"b", "p", "a", ".", "j", "s", "o", "n">>,
          <<"B", "P", "/", "a", "n", "i", "m", "a", "t", "i", "o", "n", "s">>),
     Rule(<<"r", "p", "a", ".", "j", "s", "o", "n">>,
          <<"R", "P", "/", "a", "n", "i", "m", "a", "t", "i", "o", "n">>),
     Rule(<<"b", "p", "e", ".", "j", "s", "o", "n">>,
          <<"B", "P", "/", "e", "n", "t", "i", "t", "i", "e", "s">>),
     Rule(<<"r", "p", "e", ".", "j", "s", "o", "n">>,
          <<"R", "P", "/", "e", "n", "t", "i", "t", "y">>),
     Rule(<<"b", "p", "b", ".", "j", "s", "o", "n">>,
          <<"B", "P", "/", "b", "l", "o", "c", "k", "s">>),
     Rule(<<"b", "p", "i", ".", "j", "s", "o", "n">>,
          <<"B", "P", "/", "i", "t", "e", "m", "s">>),
     Rule(<<"i", ".", "j", "s", "o", "n">>,
          <<"B", "P", "/", "i", "t", "e", "m", "s">>),
     Rule(<<"r", "p", "i", ".", "j", "s", "o", "n">>,
          <<"R", "P", "/", "i", "t", "e", "m">>),
     Rule(<<"b", "i", "o", "m", "e", ".", "j", "s", "o", "n">>,
          <<"B", "P", "/", "b", "i", "o", "m", "e", "s">>),
     Rule(<<"f", ".", "j", "s", "o", "n">>,
          <<"B", "P", "/", "f", "e", "a", "t", "u", "r", "e", "s">>),
     Rule(<<"f", "r", ".", "j", "s", "o", "n">>,
          <<"B", "P", "/", "f", "e", "a", "t", "u", "r", "e", "_", "r", "u", "l", "e", "s">>),
     Rule(<<"a", "t", ".", "j", "s", "o", "n">>,
          <<"R", "P", "/", "a", "t", "t", "a", "c", "h", "a", "b", "l", "e", "s">>),
     Rule(<<"f", "o", "g", ".", "j", "s", "o", "n">>,
          <<"R", "P", "/", "f", "o", "g", "s">>),
     Rule(<<"g", "e", "o", ".", "j", "s", "o", "n">>,
          <<"R", "P", "/", "m", "o", "d", "e", "l", "s", "/", "e", "n", "t", "i", "t", "y">>),
     Rule(<<"r", "c", ".", "j", "s", "o", "n">>,
          <<"R", "P", "/", "r", "e", "n", "d", "e", "r", "_", "c", "o", "n", "t", "r", "o", "l", "l", "e", "r", "s">>),
     Rule(<<"s", "r", ".", "j", "s", "o", "n">>,
          <<"B", "P", "/", "s", "p", "a", "w", "n", "_", "r", "u", "l", "e", "s">>),
     Rule(<<"p", ".", "j", "s", "o", "n">>,
          <<"R", "P", "/", "p", "a", "r", "t", "i", "c", "l", "e", "s">>),
     Rule(<<"r", ".", "j", "s", "o", "n">>,
          <<"B", "P", "/", "r", "e", "c", "i", "p", "e", "s">>),
     Rule(<<"l", "t", ".", "j", "s", "o", "n">>,
          <<"B", "P", "/", "l", "o", "o", "t", "_", "t", "a", "b", "l", "e", "s">>),
     Rule(<<"t", "t", ".", "j", "s", "o", "n">>,
          <<"B", "P", "/", "t", "r", "a", "d", "i", "n", "g">>) >>

RECURSIVE Reverse(_)
Reverse(s) == IF s = <<>> THEN <<>> ELSE Append(Reverse(Tail(s)), Head(s))

(***************************************************************************)
(* std::path and str helpers, as get_target_path_from_hash_map uses them.  *)
(***************************************************************************)
\* Path::file_name: the last component, None for an empty path or one that
\* ends in "..".
file_name(fp) ==
  IF fp = <<>> THEN None
  ELSE IF Last(fp) = DotDot THEN None
  ELSE Some(Last(fp))

\* Path::parent: the path without its last component, None for "".
parent(fp) == IF fp = <<>> THEN None ELSE Some(Front(fp))

\* OsStr::to_str: None when the name is not valid UTF-8.
to_str(name) ==
  IF \E i \in 1..Len(name) : name[i] = BadByte THEN None ELSE Some(name)

\* str::ends_with
ends_with(str, suffix) ==
  /\ Len(suffix) <= Len(str)
  /\ SubSeq(str, Len(str) - Len(suffix) + 1, Len(str)) = suffix

\* map.iter().find(|(k, _)| file_name.ends_with(k)): the first entry, in the
\* iteration order of this HashMap value, whose key ends the file name.  A
\* HashMap value is modelled as the sequence of its entries in that order.
\* Faulty variant: falls back to the first entry when no key ends the name.
find_or_first(name, map) ==
  LET hits == {i \in 1..Len(map) : ends_with(name, map[i].k)}
  IN IF hits = {} THEN (IF map = <<>> THEN None ELSE Some(map[1]))
     ELSE Some(map[CHOOSE i \in hits : \A j \in hits : i <= j])

find(name, map) ==
  LET hits == {i \in 1..Len(map) : ends_with(name, map[i].k)}
  IN IF hits = {} THEN None
     ELSE Some(map[CHOOSE i \in hits : \A j \in hits : i <= j])

\* file_name == extension || file_name == &format!("_{}", extension)
is_bare(name, extension) ==
  name = extension \/ name = <<"_">> \o extension

\* fp.parent()?.file_name()?.to_str()?.to_string() + &extension
\* Faulty variant: puts a "." between the parent's name and the extension.
bare_base_name_dotted(parent_name, extension) ==
  IF extension # <<>> /\ Head(extension) = "."
    THEN parent_name \o extension
    ELSE parent_name \o <<".">> \o extension

bare_base_name(parent_name, extension) == parent_name \o extension

\* PathBuf::from(target).iter().collect(): the components of the template,
\* split on the separator; empty components (a doubled or trailing
\* separator) are dropped.
RECURSIVE path_iter(_, _, _)
path_iter(str, cur, acc) ==
  IF str = <<>> THEN (IF cur = <<>> THEN acc ELSE Append(acc, cur))
  ELSE IF Head(str) = Sep
    THEN path_iter(Tail(str), <<>>, IF cur = <<>> THEN acc ELSE Append(acc, cur))
    ELSE path_iter(Tail(str), Append(cur, Head(str)), acc)

\* Faulty variant: the template is taken as one component.
fix_separators_unsplit(target) == <<target>>

fix_separators(target) == path_iter(target, <<>>, <<>>)

\* Lines 29-37: (base_name, base_path), None where a `?` returns early.
base(fp, name, extension) ==
  IF is_bare(name, extension)
    THEN LET dir == Unwrap(parent(fp))
             dn  == file_name(dir)
         IN IF dn = None THEN None
            ELSE IF to_str(Unwrap(dn)) = None THEN None
            ELSE IF parent(dir) = None THEN None
            ELSE Some([base_name |-> bare_base_name(Unwrap(to_str(Unwrap(dn))),
                                                   extension),
                       base_path |-> Unwrap(parent(dir))])
    ELSE Some([base_name |-> name, base_path |-> Unwrap(parent(fp))])

get_target_path_from_hash_map(fp, map) ==
  IF file_name(fp) = None THEN None
  ELSE IF to_str(Unwrap(file_name(fp))) = None THEN None
  ELSE LET name  == Unwrap(to_str(Unwrap(file_name(fp))))
           entry == find(name, map)
       IN IF entry = None THEN None
          ELSE LET b == base(fp, name, Unwrap(entry).k)
               IN IF b = None THEN None
                  ELSE Some(fix_separators(Unwrap(entry).v)
                            \o Unwrap(b).base_path
                            \o <<Unwrap(b).base_name>>)

(***************************************************************************)
(* Inputs of the classifier.                                               *)
(***************************************************************************)
MaxDepth == 3

Segments ==
  {s_entities, s_models, s_foo, DotDot, s_bad,
   f_ubpe, f_udotbpe, f_bpe, f_foo_geo, f_bar_rc, f_readme}

RECURSIVE PathsOfLen(_)
PathsOfLen(n) ==
  IF n = 0 THEN {<<>>}
  ELSE {Append(p, s) : p \in PathsOfLen(n - 1), s \in Segments}

ClassifyPaths == UNION {PathsOfLen(n) : n \in 0..MaxDepth}

R_bpe    == Rule(f_bpe, t_BP_entities)
R_dotbpe == Rule(f_dotbpe, t_BP_entities)
R_json   == Rule(k_json, t_RP_x)
R_rc     == Rule(k_rc, t_RP_rc)
R_lang   == Rule(k_lang, t_RP_texts)
R_lang2  == Rule(k_lang, t_RP_texts_sloppy)
R_geo    == Rule(k_geo, t_RP_models_entity)

ClassifyMaps ==
  { <<>>, <<R_bpe>>, <<R_dotbpe>>, <<R_lang>>, <<R_lang2>>,
    <<R_json, R_rc>>, <<R_rc, R_json>>,
    <<R_bpe, R_json>>, <<R_json, R_bpe>>,
    <<R_bpe, R_dotbpe>>, <<R_dotbpe, R_bpe>>,
    FixedTable, Reverse(FixedTable) }

\* Two HashMap values holding the same entries (HashMap's ==).
SameEntries(m1, m2) ==
  {m1[i] : i \in 1..Len(m1)} = {m2[i] : i \in 1..Len(m2)}

(***************************************************************************)
(* Inputs of the copier.  Every path is relative to working_dir.  The      *)
(* export targets of these inputs are relative and lie outside             *)
(* data/custom_project, the directory the sources are read from.           *)
(***************************************************************************)
FILTER_DATA_PATH == <<s_data, s_custom_project>>

RootPath(root) == FILTER_DATA_PATH \o <<root>>

R_dotlang == Rule(k_dotlang, t_RP)

\* Proper, non-empty prefixes of a path plus the path itself: the directories
\* create_dir_all(path) has to make sure of.
Prefixes(path) == {SubSeq(path, 1, n) : n \in 1..Len(path)}

Ancestors(path) == {SubSeq(path, 1, n) : n \in 0..(Len(path) - 1)}

IsPrefix(p, q) == Len(p) <= Len(q) /\ SubSeq(q, 1, Len(p)) = p

\* A staged tree: the regular files under data/custom_project with their
\* bytes, and the directories.
TreePacks ==
  [ files |-> ( RootPath(s_r1) \o <<s_entities, f_ubpe>> :> "bytes1"
             @@ RootPath(s_r1) \o <<f_entitiesbpe>>      :> "bytes2"
             @@ RootPath(s_r1) \o <<f_readme>>           :> "bytes3"
             @@ RootPath(s_r1) \o <<s_models, f_foo_geo>> :> "bytes4"
             @@ RootPath(s_r2) \o <<f_y_lang>>           :> "bytes5" ),
    dirs  |-> { RootPath(s_r1), RootPath(s_r1) \o <<s_entities>>,
                RootPath(s_r1) \o <<s_models>>, RootPath(s_r2) } ]

TreeLang ==
  [ files |-> ( RootPath(s_r1) \o <<s_x, f_udotlang>>   :> "bytes1"
             @@ RootPath(s_r1) \o <<s_x_lang, f_y_lang>> :> "bytes2"
             @@ RootPath(s_r2) \o <<f_y_lang>>           :> "bytes3" ),
    dirs  |-> { RootPath(s_r1), RootPath(s_r1) \o <<s_x>>,
                RootPath(s_r1) \o <<s_x_lang>>, RootPath(s_r2) } ]

Trees == {TreePacks, TreeLang}

CopierMaps ==
  { <<R_bpe, R_geo, R_dotlang>>, <<R_json, R_bpe, R_geo, R_dotlang>> }

\* The "roots" array of the configuration.
RootLists ==
  { <<s_r1>>, <<s_r1, s_r2>>, <<s_r2, s_r1>>, <<s_missing, s_r1>> }

\* Files that may be in the working directory before the first run: an
\* earlier export, and a regular file where an export needs a directory.
PreFiles ==
  { <<s_BP, s_entities, f_entitiesbpe>>, <<s_RP, s_models>> }

\* Environment failures (permissions, I/O) injected per run.
MaxFaults == 1
\* Invocations of the program on the same working directory.
MaxRuns == 2

VARIABLES c_pc, c_fp, c_map, c_res,
          src,         \* the staged tree as it was before the first run
          pre,         \* the files of the working directory before the first run
          export_map,  \* the ExtExportMap value, in its iteration order
          roots,       \* the roots of the configuration
          files,       \* file system: regular file path -> bytes
          dirs,        \* file system: directories
          pc,          \* "roots": in the loop of copy_files_by_roots;
                       \* "walk": inside copy_files; "done": main returned
          rootIdx,     \* index of the root being walked (0 before the first)
          stack,       \* the frames of copy_files: [dir, todo]
          outcome,     \* per source file, what this run did with it
          result,      \* what copy_files_by_roots returned to main
          fatal,       \* the operation whose error was propagated
          run,         \* number of the current invocation
          faults,      \* environment failures injected in this run
          failures,    \* runs in which some I/O operation failed
          snapshot,    \* files and dirs when the previous run ended
          steps        \* turns of the loops this run has taken

cvars == <<c_pc, c_fp, c_map, c_res>>
fvars == <<src, pre, export_map, roots, files, dirs, pc, rootIdx, stack,
           outcome, result, fatal, run, faults, failures, snapshot,
           steps>>
vars == <<cvars, fvars>>
\* What a run of the copier never assigns.
inputs == <<cvars, src, pre, export_map, roots>>

(***************************************************************************)
(* File system operations.                                                 *)
(***************************************************************************)
\* Path::exists / Path::is_dir
\* Faulty variant: the check of line 96 never finds the target.
exists_never(path) == FALSE

exists(path) == path \in DOMAIN files \/ path \in dirs

is_dir(path) == path \in dirs

\* The entries fs::read_dir(dir) yields.
read_dir(dir) ==
  {p[Len(dir) + 1] : p \in {q \in DOMAIN files \cup dirs :
                             Len(q) > Len(dir) /\ IsPrefix(dir, q)}}

\* fs::create_dir_all(path) cannot succeed: a component is a regular file.
Blocked(path) == \E p \in Prefixes(path) : p \in DOMAIN files

SourceFiles == DOMAIN src.files

\* The source files under the root with index i of the configuration.
FilesUnder(i) ==
  {f \in SourceFiles : IsPrefix(RootPath(roots[i]), f)}

\* short_fp and the target path copy_files computes for the file fp.
short_fp(fp, root_dir) == SubSeq(fp, Len(root_dir) + 1, Len(fp))

target_path_of(fp, root_dir) ==
  get_target_path_from_hash_map(short_fp(fp, root_dir), export_map)

Top == stack[Len(stack)]
root_dir == RootPath(roots[rootIdx])

Report(fp, what) == [outcome EXCEPT ![fp] = Append(@, what)]

\* An error propagated by `?` through every frame of copy_files and through
\* copy_files_by_roots to main, which prints it and returns.
\* Faulty variant: copy_files_by_roots swallows the error and takes the next
\* root.
Propagate_caught(cause) ==
  /\ result' = result
  /\ fatal' = cause
  /\ stack' = <<>>
  /\ pc' = "roots"
  /\ failures' = failures \cup {run}

Propagate(cause) ==
  /\ result' = "Err"
  /\ fatal' = cause
  /\ stack' = <<>>
  /\ pc' = "done"
  /\ failures' = failures \cup {run}

Fault == faults < MaxFaults /\ faults' = faults + 1

Frame(dir) == [dir |-> dir, todo |-> read_dir(dir)]

ClassifyIdle ==
  /\ c_pc = "idle" /\ c_fp = <<>> /\ c_map = <<>> /\ c_res = None

Init ==
  /\ ClassifyIdle
  /\ src \in Trees
  /\ pre \in SUBSET PreFiles
  /\ export_map \in CopierMaps
  /\ roots \in RootLists
  /\ files = [p \in DOMAIN src.files \cup pre |->
                IF p \in pre THEN "old" ELSE src.files[p]]
  /\ dirs = src.dirs \cup UNION {Ancestors(p) : p \in DOMAIN src.files \cup pre}
  /\ pc = "roots"
  /\ rootIdx = 0
  /\ stack = <<>>
  /\ outcome = [f \in DOMAIN src.files |-> <<>>]
  /\ result = "none"
  /\ fatal = "none"
  /\ run = 1
  /\ faults = 0
  /\ failures = {}
  /\ snapshot = [files |-> files, dirs |-> dirs]
  /\ steps = 0

(***************************************************************************)
(* copy_files: one action per turn of its loop over the directory entries. *)
(* Each takes the entry e of the frame on top of the stack; the order in   *)
(* which read_dir yields the entries is the file system's choice.          *)
(***************************************************************************)
Step == steps' = steps + 1

Rest(e) == [stack EXCEPT ![Len(stack)].todo = @ \ {e}]

\* Line 70: `fp?` on an entry the iterator could not read.
dir_entry_error(e) ==
  /\ Fault
  /\ Propagate("dir_entry")
  /\ Step /\ UNCHANGED <<inputs, files, dirs, rootIdx, outcome, run, snapshot>>

\* Lines 73-76 with lines 62-68 of the callee: recurse into a directory.
recurse(e) ==
  LET fp == Append(Top.dir, e) IN
  /\ is_dir(fp)
  /\ stack' = Append(Rest(e), Frame(fp))
  /\ Step /\ UNCHANGED <<inputs, files, dirs, pc, rootIdx, outcome, result,
                         fatal, run, faults, failures, snapshot>>

\* Lines 62-68 of the callee: the directory cannot be read.
recurse_read_dir_error(e) ==
  LET fp == Append(Top.dir, e) IN
  /\ is_dir(fp)
  /\ Fault
  /\ Propagate("read_dir")
  /\ Step /\ UNCHANGED <<inputs, files, dirs, rootIdx, outcome, run, snapshot>>

\* Lines 80-92: no export target, the file is skipped.
unmapped(e) ==
  LET fp == Append(Top.dir, e) IN
  /\ ~is_dir(fp)
  /\ target_path_of(fp, root_dir) = None
  /\ outcome' = Report(fp, "Unmapped")
  /\ stack' = Rest(e)
  /\ Step /\ UNCHANGED <<inputs, files, dirs, pc, rootIdx, result, fatal,
                         run, faults, failures, snapshot>>

\* Lines 96-102: the target exists, the file is skipped.
already_exists(e) ==
  LET fp == Append(Top.dir, e)
      t  == target_path_of(fp, root_dir) IN
  /\ ~is_dir(fp)
  /\ t # None
  /\ exists(Unwrap(t))
  /\ outcome' = Report(fp, "Exists")
  /\ stack' = Rest(e)
  /\ Step /\ UNCHANGED <<inputs, files, dirs, pc, rootIdx, result, fatal,
                         run, faults, failures, snapshot>>

\* Line 103: create_dir_all(target_path.parent())? fails on a component
\* that is a regular file.
create_dir_all_blocked(e) ==
  LET fp == Append(Top.dir, e)
      t  == target_path_of(fp, root_dir) IN
  /\ ~is_dir(fp)
  /\ t # None
  /\ ~exists(Unwrap(t))
  /\ Blocked(Front(Unwrap(t)))
  /\ Propagate("create_dir_all")
  /\ Step /\ UNCHANGED <<inputs, files, dirs, rootIdx, outcome, run, faults,
                         snapshot>>

\* Line 103: create_dir_all fails on the n-th component (permissions); the
\* components before it have been created.
create_dir_all_error(e) ==
  LET fp == Append(Top.dir, e)
      t  == target_path_of(fp, root_dir) IN
  /\ ~is_dir(fp)
  /\ t # None
  /\ ~exists(Unwrap(t))
  /\ ~Blocked(Front(Unwrap(t)))
  /\ Fault
  /\ \E n \in 1..(Len(Unwrap(t)) - 1) :
       /\ SubSeq(Unwrap(t), 1, n) \notin dirs
       /\ dirs' = dirs \cup Prefixes(SubSeq(Unwrap(t), 1, n - 1))
  /\ Propagate("create_dir_all")
  /\ Step /\ UNCHANGED <<inputs, files, rootIdx, outcome, run, snapshot>>

\* Faulty variant of copy_ok: the file is moved, not copied.
copy_ok_by_rename(e) ==
  LET fp == Append(Top.dir, e)
      t  == target_path_of(fp, root_dir) IN
  /\ ~is_dir(fp)
  /\ t # None
  /\ ~exists(Unwrap(t))
  /\ ~Blocked(Front(Unwrap(t)))
  /\ dirs' = dirs \cup Prefixes(Front(Unwrap(t)))
  /\ files' = [p \in (DOMAIN files \ {fp}) \cup {Unwrap(t)} |->
                 IF p = Unwrap(t) THEN files[fp] ELSE files[p]]
  /\ outcome' = Report(fp, "Copied")
  /\ stack' = Rest(e)
  /\ Step /\ UNCHANGED <<inputs, pc, rootIdx, result, fatal, run, faults,
                         failures, snapshot>>

\* Lines 103-105: the directories are made and the bytes copied.
copy_ok(e) ==
  LET fp == Append(Top.dir, e)
      t  == target_path_of(fp, root_dir) IN
  /\ ~is_dir(fp)
  /\ t # None
  /\ ~exists(Unwrap(t))
  /\ ~Blocked(Front(Unwrap(t)))
  /\ dirs' = dirs \cup Prefixes(Front(Unwrap(t)))
  /\ files' = (Unwrap(t) :> files[fp]) @@ files
  /\ outcome' = Report(fp, "Copied")
  /\ stack' = Rest(e)
  /\ Step /\ UNCHANGED <<inputs, pc, rootIdx, result, fatal, run, faults,
                         failures, snapshot>>

\* Lines 104-112: fs::copy fails; a warning, and the walk goes on.  The
\* target is left absent or truncated.
copy_error(e) ==
  LET fp == Append(Top.dir, e)
      t  == target_path_of(fp, root_dir) IN
  /\ ~is_dir(fp)
  /\ t # None
  /\ ~exists(Unwrap(t))
  /\ ~Blocked(Front(Unwrap(t)))
  /\ Fault
  /\ dirs' = dirs \cup Prefixes(Front(Unwrap(t)))
  /\ \/ files' = files
     \/ files' = (Unwrap(t) :> "truncated") @@ files
  /\ outcome' = Report(fp, "Failed")
  /\ failures' = failures \cup {run}
  /\ stack' = Rest(e)
  /\ Step /\ UNCHANGED <<inputs, pc, rootIdx, result, fatal, run, snapshot>>

\* Line 114: the directory is exhausted, copy_files returns Ok to its caller.
copy_files_return ==
  /\ pc = "walk"
  /\ Top.todo = {}
  /\ stack' = Front(stack)
  /\ pc' = IF Len(stack) = 1 THEN "roots" ELSE "walk"
  /\ Step /\ UNCHANGED <<inputs, files, dirs, rootIdx, outcome, result,
                         fatal, run, faults, failures, snapshot>>

\* The entries the iterator of the top frame still holds (line 69).
Entries == IF pc = "walk" THEN Top.todo ELSE {}

copy_files ==
  \/ \E e \in Entries : dir_entry_error(e)
  \/ \E e \in Entries : recurse(e)
  \/ \E e \in Entries : recurse_read_dir_error(e)
  \/ \E e \in Entries : unmapped(e)
  \/ \E e \in Entries : already_exists(e)
  \/ \E e \in Entries : create_dir_all_blocked(e)
  \/ \E e \in Entries : create_dir_all_error(e)
  \/ \E e \in Entries : copy_ok(e)
  \/ \E e \in Entries : copy_error(e)
  \/ copy_files_return

(***************************************************************************)
(* copy_files_by_roots and main.                                           *)
(***************************************************************************)
\* Lines 130-133 with lines 62-68 of the callee: the next root is opened.
next_root ==
  /\ pc = "roots"
  /\ rootIdx < Len(roots)
  /\ is_dir(RootPath(roots[rootIdx + 1]))
  /\ rootIdx' = rootIdx + 1
  /\ stack' = <<Frame(RootPath(roots[rootIdx + 1]))>>
  /\ pc' = "walk"
  /\ Step /\ UNCHANGED <<inputs, files, dirs, outcome, result, fatal, run,
                         faults, failures, snapshot>>

\* Lines 62-68 of the callee: the root is no directory or cannot be read.
next_root_read_dir_error ==
  /\ pc = "roots"
  /\ rootIdx < Len(roots)
  /\ rootIdx' = rootIdx + 1
  /\ \/ ~is_dir(RootPath(roots[rootIdx + 1])) /\ UNCHANGED faults
     \/ is_dir(RootPath(roots[rootIdx + 1])) /\ Fault
  /\ Propagate("read_dir")
  /\ Step /\ UNCHANGED <<inputs, files, dirs, outcome, run, snapshot>>

\* Line 135 and lines 178-182: every root is done.
copy_files_by_roots_return ==
  /\ pc = "roots"
  /\ rootIdx = Len(roots)
  /\ result' = "Ok"
  /\ pc' = "done"
  /\ Step /\ UNCHANGED <<inputs, files, dirs, rootIdx, stack, outcome, fatal,
                         run, faults, failures, snapshot>>

copy_files_by_roots ==
  \/ next_root
  \/ next_root_read_dir_error
  \/ copy_files_by_roots_return

\* The program is run again on the same working directory, with the same
\* configuration.
main ==
  /\ pc = "done"
  /\ run < MaxRuns
  /\ run' = run + 1
  /\ pc' = "roots"
  /\ rootIdx' = 0
  /\ outcome' = [f \in DOMAIN outcome |-> <<>>]
  /\ result' = "none"
  /\ fatal' = "none"
  /\ faults' = 0
  /\ snapshot' = [files |-> files, dirs |-> dirs]
  /\ steps' = 0
  /\ UNCHANGED <<inputs, files, dirs, stack, failures>>

Next ==
  \/ copy_files_by_roots
  \/ copy_files
  \/ main

Spec == Init /\ [][Next]_vars

(***************************************************************************)
(* The classifier alone, on inputs the walk never produces as well.        *)
(***************************************************************************)
CopierIdle ==
  /\ src = TreePacks /\ pre = {} /\ export_map = <<>> /\ roots = <<>>
  /\ files = src.files /\ dirs = src.dirs
  /\ pc = "done" /\ rootIdx = 0 /\ stack = <<>>
  /\ outcome = [f \in DOMAIN src.files |-> <<>>]
  /\ result = "none" /\ fatal = "none" /\ run = MaxRuns /\ faults = 0
  /\ failures = {} /\ snapshot = [files |-> files, dirs |-> dirs]
  /\ steps = 0

InitClassify ==
  /\ c_pc = "call"
  /\ c_fp \in ClassifyPaths
  /\ c_map \in ClassifyMaps
  /\ c_res = None
  /\ CopierIdle

Classify ==
  /\ c_pc = "call"
  /\ c_res' = get_target_path_from_hash_map(c_fp, c_map)
  /\ c_pc' = "ret"
  /\ UNCHANGED <<c_fp, c_map, fvars>>

NextClassify == Classify

SpecClassify == InitClassify /\ [][NextClassify]_vars

(***************************************************************************)
(* Properties of the copier, under Spec.                                   *)
(***************************************************************************)
\* The roots of the configuration that hold the source file f.
RootsOf(f) == {i \in 1..Len(roots) : f \in FilesUnder(i)}

\* The source files the run walks when nothing stops it.
Walked == {f \in SourceFiles : RootsOf(f) # {}}

\* The export target of a source file, None when it is unmapped.
TargetOf(f) ==
  target_path_of(f, RootPath(roots[CHOOSE i \in RootsOf(f) : TRUE]))

Mapped == {f \in Walked : TargetOf(f) # None}

Present(path) == path \in DOMAIN files \/ path \in dirs

\* No I/O operation has failed since the working directory held no export.
FaultFree == pre = {} /\ failures = {}

\* C1: no step deletes a file or changes the bytes of a file that exists,
\* be it from before the run or written earlier in it; and the turn of the
\* loop for a file whose computed target exists reports "already exists",
\* writes nothing, returns no error and leaves the walk going.
C1_NeverOverwrite ==
  [][ /\ \A p \in DOMAIN files : p \in DOMAIN files' /\ files'[p] = files[p]
      /\ dirs \subseteq dirs'
      /\ \A f \in SourceFiles :
           ( /\ run' = run
             /\ outcome'[f] # outcome[f]
             /\ target_path_of(f, root_dir) # None
             /\ Present(Unwrap(target_path_of(f, root_dir))) )
           => /\ outcome'[f] = Append(outcome[f], "Exists")
              /\ files' = files
              /\ result' = result /\ result # "Err"
              /\ pc' = "walk" ]_vars

C1_Witness ==
  /\ <<s_BP, s_entities, f_entitiesbpe>> \in pre
  /\ files[<<s_BP, s_entities, f_entitiesbpe>>] = "old"
  /\ \E f \in Mapped :
       /\ TargetOf(f) = Some(<<s_BP, s_entities, f_entitiesbpe>>)
       /\ outcome[f] = <<"Exists">>
  /\ \E g \in Mapped : outcome[g] = <<"Copied">>

\* C2: when the only failures of a run are failures on single files
\* (create_dir_all or fs::copy for one target), the walk is not aborted:
\* every file of every root has been dealt with when the run ends.
C2_FailureIsolated ==
  (pc = "done" /\ fatal \notin {"read_dir", "dir_entry"})
    => \A f \in Walked : Len(outcome[f]) = 1

\* C5, as stated: from an empty destination and with no failure, the first
\* run copies every mapped file, the second skips every mapped file and
\* leaves the destination as the first left it.
C5_Idempotent ==
  (pc = "done" /\ FaultFree)
    => /\ run = 1 => \A f \in Mapped : outcome[f] = <<"Copied">>
       /\ run > 1 => /\ \A f \in Mapped : outcome[f] = <<"Exists">>
                     /\ snapshot = [files |-> files, dirs |-> dirs]

\* C5, amended: from an empty destination and with no failure, the first
\* run copies every mapped file whose target does not exist yet when the
\* file is reached, and skips a mapped file whose target an earlier copy of
\* the same run has produced (the same target, or a directory made for it);
\* every later run skips every mapped file and leaves the destination as
\* the first left it.
C5_IdempotentUpToCollisions ==
  (pc = "done" /\ FaultFree)
    => /\ run = 1 =>
            \A f \in Mapped :
              /\ outcome[f] \in {<<"Copied">>, <<"Exists">>}
              /\ Present(Unwrap(TargetOf(f)))
              /\ outcome[f] = <<"Copied">>
                   => files[Unwrap(TargetOf(f))] = src.files[f]
              /\ outcome[f] = <<"Exists">>
                   => \E g \in Mapped \ {f} :
                        /\ outcome[g] = <<"Copied">>
                        /\ IsPrefix(Unwrap(TargetOf(f)), Unwrap(TargetOf(g)))
       /\ run > 1 => /\ \A f \in Mapped : outcome[f] = <<"Exists">>
                     /\ snapshot = [files |-> files, dirs |-> dirs]

C5_Witness ==
  /\ pc = "done" /\ FaultFree /\ run = 2
  /\ \E f \in Mapped : \E g \in Mapped \ {f} :
       TargetOf(f) = TargetOf(g) /\ outcome[f] = <<"Exists">>
  /\ \E t \in DOMAIN files : t \notin SourceFiles

\* C8: a run ends with an error only when a directory could not be opened
\* or listed.
C8_FatalOnlyOnReadDir ==
  (pc = "done" /\ result = "Err") => fatal = "read_dir"

\* C9, as stated: no failure in one root keeps a later root of the list from
\* being walked, so when the run ends every root has been entered.
C9_EveryRootWalked ==
  pc = "done" => rootIdx = Len(roots)

\* C9, amended: the roots are walked in list order; a recoverable failure
\* (unmapped file, existing target, failed copy) keeps no later root from
\* being walked, while the first fatal error ends the run at once: the roots
\* after the failing one are never walked.
C9_RootsInOrderUntilFatal ==
  /\ \A f \in Walked :
       outcome[f] # <<>> => \E i \in RootsOf(f) : i <= rootIdx
  /\ fatal # "none" => pc = "done" /\ result = "Err"
  /\ (pc = "done" /\ result = "Ok") => fatal = "none"
  /\ (pc = "done" /\ fatal = "none")
       => /\ rootIdx = Len(roots)
          /\ \A f \in Walked : Len(outcome[f]) = 1
  /\ (pc = "done" /\ fatal # "none")
       => \A i \in (rootIdx + 1)..Len(roots) :
            \A f \in FilesUnder(i) : outcome[f] = <<>>

C9_Witness ==
  /\ pc = "done" /\ result = "Err" /\ rootIdx = 1 /\ Len(roots) = 2
  /\ FilesUnder(2) # {}
  /\ \A f \in FilesUnder(2) : outcome[f] = <<>>

\* The staged tree is as it was before the first run.
SourceUnchanged ==
  /\ \A f \in SourceFiles : f \in DOMAIN files /\ files[f] = src.files[f]
  /\ {p \in DOMAIN files : IsPrefix(FILTER_DATA_PATH, p)} = SourceFiles
  /\ {d \in dirs : IsPrefix(FILTER_DATA_PATH, d)}
       = src.dirs \cup {FILTER_DATA_PATH}

\* C10: a run in which no I/O operation fails ends with Ok, having dealt
\* with every regular file under its roots exactly once: reported unmapped,
\* reported as existing, or copied, the target then holding the bytes of the
\* source; the staged tree is unchanged.
C10_CleanRunCompletes ==
  /\ SourceUnchanged
  /\ (pc = "done" /\ run \notin failures)
       => /\ result = "Ok"
          /\ \A f \in Walked :
               /\ Len(outcome[f]) = 1
               /\ outcome[f][1] \in {"Unmapped", "Exists", "Copied"}
               /\ outcome[f][1] = "Unmapped" <=> TargetOf(f) = None
               /\ outcome[f][1] = "Copied"
                    => /\ Unwrap(TargetOf(f)) \in DOMAIN files
                       /\ files[Unwrap(TargetOf(f))] = src.files[f]

C10_Witness ==
  /\ pc = "done" /\ run \notin failures /\ result = "Ok"
  /\ \E f \in Walked : outcome[f] = <<"Unmapped">>
  /\ \E f \in Walked : outcome[f] = <<"Exists">>
  /\ \E f \in Walked : outcome[f] = <<"Copied">>

\* What a run has left to do: the entries its frames still hold, with all
\* that lies below them, the frames to return from and the roots to open.
Below(path) ==
  Cardinality({q \in DOMAIN src.files \cup src.dirs :
                 Len(q) > Len(path) /\ IsPrefix(path, q)})

RECURSIVE SumBelow(_, _)
SumBelow(dir, todo) ==
  IF todo = {} THEN 0
  ELSE LET e == CHOOSE x \in todo : TRUE
       IN 1 + Below(Append(dir, e)) + SumBelow(dir, todo \ {e})

RECURSIVE Pending(_)
Pending(frames) ==
  IF frames = <<>> THEN 0
  ELSE SumBelow(Head(frames).dir, Head(frames).todo) + Pending(Tail(frames))

Measure ==
  (Len(roots) - rootIdx) * (2 * Cardinality(DOMAIN src.files \cup src.dirs) + 2)
    + 2 * Pending(stack) + Len(stack) + (IF pc = "done" THEN 0 ELSE 1)

\* The run is where the program can go on: in the loop over the roots with
\* no frame left, or in a walk whose top frame holds entries of the file
\* system.
CanGoOn ==
  \/ pc = "done"
  \/ pc = "roots" /\ stack = <<>> /\ rootIdx <= Len(roots)
  \/ /\ pc = "walk" /\ stack # <<>> /\ rootIdx \in 1..Len(roots)
     /\ \A e \in Top.todo : Append(Top.dir, e) \in DOMAIN files \cup dirs

\* C10, with termination: a run has taken no more turns than the staged tree
\* and the roots allow, each turn having brought it nearer its end, and can
\* go on until main returns; and the run ends as C10_CleanRunCompletes says.
C10_TerminatesComplete ==
  /\ steps + Measure
       <= Len(roots) * (2 * Cardinality(DOMAIN src.files \cup src.dirs) + 2) + 1
  /\ CanGoOn
  /\ C10_CleanRunCompletes

(***************************************************************************)
(* Properties of the classifier, under SpecClassify.  They are stated on   *)
(* the strings of the call, not with the operators of the model.           *)
(***************************************************************************)
\* The components of a template, by the positions of its separators.
SegStarts(t) == {i \in 1..Len(t) : t[i] # Sep /\ (i = 1 \/ t[i - 1] = Sep)}

SegEnd(t, i) ==
  CHOOSE j \in i..Len(t) :
    /\ \A m \in i..j : t[m] # Sep
    /\ j = Len(t) \/ t[j + 1] = Sep

NthStart(t, n) ==
  CHOOSE i \in SegStarts(t) : Cardinality({j \in SegStarts(t) : j < i}) = n - 1

TemplateSegments(t) ==
  [n \in 1..Cardinality(SegStarts(t)) |->
     SubSeq(t, NthStart(t, n), SegEnd(t, NthStart(t, n)))]

ValidName(name) == \A i \in 1..Len(name) : name[i] # BadByte

IsSuffix(suffix, name) ==
  /\ Len(suffix) <= Len(name)
  /\ \A i \in 1..Len(suffix) : name[Len(name) - Len(suffix) + i] = suffix[i]

HasFileName == c_fp # <<>> /\ Last(c_fp) # DotDot

Matching == {i \in 1..Len(c_map) : IsSuffix(c_map[i].k, Last(c_fp))}

SomeRuleMatches == HasFileName /\ ValidName(Last(c_fp)) /\ Matching # {}

\* The rule the call settles on: the first match in iteration order.
MatchedRule == c_map[CHOOSE i \in Matching : \A j \in Matching : i <= j]

IsBareFile ==
  /\ SomeRuleMatches
  /\ \/ Last(c_fp) = MatchedRule.k
     \/ Last(c_fp) = <<"_">> \o MatchedRule.k

HasParentName ==
  /\ Len(c_fp) >= 2
  /\ c_fp[Len(c_fp) - 1] # DotDot
  /\ ValidName(c_fp[Len(c_fp) - 1])

\* C3: the result of a call does not depend on the iteration order of the
\* rule map: every map value with the same entries gives the same result.
C3_Deterministic ==
  c_pc = "ret"
    => \A m \in ClassifyMaps :
         SameEntries(m, c_map)
           => get_target_path_from_hash_map(c_fp, m) = c_res

\* C4, as stated: with the rule "bpe.json" -> "BP/entities", both
\* "entities/_bpe.json" and "entities/_.bpe.json" are classified to
\* "BP/entities/entities.bpe.json".
C4_BareFileDotted ==
  ( /\ c_pc = "ret"
    /\ c_map = <<R_bpe>>
    /\ c_fp \in {<<s_entities, f_ubpe>>, <<s_entities, f_udotbpe>>} )
    => c_res = Some(<<s_BP, s_entities, f_entities_bpe>>)

\* C4, amended: for a file named exactly the matched suffix, or the suffix
\* prefixed with "_", the destination is the template, then the grandparent
\* directory, then the parent directory's name immediately followed by the
\* suffix, nothing put between them.  "entities/_bpe.json" under "bpe.json"
\* gives "BP/entities/entitiesbpe.json"; "entities/_.bpe.json" is a bare
\* file under ".bpe.json" only, where it gives
\* "BP/entities/entities.bpe.json", and under "bpe.json" it keeps its name.
C4_BareFile ==
  c_pc = "ret"
    => /\ (IsBareFile /\ HasParentName)
            => c_res = Some(TemplateSegments(MatchedRule.v)
                            \o SubSeq(c_fp, 1, Len(c_fp) - 2)
                            \o <<c_fp[Len(c_fp) - 1] \o MatchedRule.k>>)
       /\ (c_fp = <<s_entities, f_ubpe>> /\ c_map = <<R_bpe>>)
            => c_res = Some(<<s_BP, s_entities, f_entitiesbpe>>)
       /\ (c_fp = <<s_entities, f_udotbpe>> /\ c_map = <<R_dotbpe>>)
            => c_res = Some(<<s_BP, s_entities, f_entities_bpe>>)
       /\ (c_fp = <<s_entities, f_udotbpe>> /\ c_map = <<R_bpe>>)
            => c_res = Some(<<s_BP, s_entities, s_entities, f_udotbpe>>)

C4_Witness ==
  /\ c_pc = "ret"
  /\ c_fp = <<s_models, s_entities, f_ubpe>>
  /\ c_map = <<R_bpe>>
  /\ c_res = Some(<<s_BP, s_entities, s_models, f_entitiesbpe>>)

\* C6: the result is None when the path has no file name, when no rule's
\* suffix ends the file name, and when the file is a bare file whose parent
\* directory has no name to take.
C6_NoneWhenUnmappable ==
  ( /\ c_pc = "ret"
    /\ \/ ~HasFileName
       \/ Matching = {}
       \/ IsBareFile /\ ~HasParentName )
    => c_res = None

C6_Witness ==
  /\ c_pc = "ret"
  /\ c_fp = <<f_readme>>
  /\ c_map = <<R_lang>>
  /\ c_res = None

\* C7: for a file that matches a rule and is no bare file, the destination
\* is the components of the rule's template, then the components of the
\* file's parent directory, then the file name unchanged; with the fixed
\* table, "models/foo.geo.json" gives "RP/models/entity/models/foo.geo.json".
C7_PlainFile ==
  c_pc = "ret"
    => /\ (SomeRuleMatches /\ ~IsBareFile)
            => c_res = Some(TemplateSegments(MatchedRule.v)
                            \o Front(c_fp) \o <<Last(c_fp)>>)
       /\ (c_fp = <<s_models, f_foo_geo>> /\ SameEntries(c_map, FixedTable))
            => c_res = Some(<<s_RP, s_models, s_entity, s_models, f_foo_geo>>)

C7_Witness ==
  /\ c_pc = "ret"
  /\ c_fp = <<s_models, f_foo_geo>>
  /\ c_map = FixedTable
  /\ c_res = Some(<<s_RP, s_models, s_entity, s_models, f_foo_geo>>)

====
